---- MODULE Spec2Model ----
(***************************************************************************)
(* Model of scientific_method.py: the ScientificMethod class (a record of  *)
(* eight keys filled by seven stage methods, a transcript log, a JSON      *)
(* export) and the main() script that resolves the question and drives one *)
(* run.                                                                    *)
(*                                                                         *)
(* Python values: None is the empty tuple, a str t is the 1-tuple <<t>>.   *)
(* A prompt (an f-string) is the tuple of its literal and embedded parts.  *)
(* A log message is a tuple of its parts.                                  *)
(***************************************************************************)
EXTENDS Naturals, Sequences, FiniteSets, TLC

VARIABLES
    environ,        \* value of SCIENTIFIC_METHOD_QUESTION in the environment (None: unset)
    argv,           \* parsed command line: question_flag, question, generate_data
    client,         \* "main": the script drives the object; "api": a caller of the class does
    pc,             \* position of the single thread of control
    question,       \* the question passed to run_full_method / observe (main's local)
    generate_data,  \* run_full_method's generate_data parameter
    inrun,          \* a run_full_method frame is active
    results,        \* self.results
    log,            \* contents of self.log_file, one entry per message
    file,           \* contents of scientific_method_results.json (None: never written)
    inflight,       \* the external request being waited for (None: none)
    calls,          \* history: every external request issued, in order
    failed,         \* history: stage of every request that failed
    returned,       \* history: number of run_full_method calls that returned
    saves,          \* history: number of save_results calls
    direct          \* history: number of stage methods called outside run_full_method

vars == <<environ, argv, client, pc, question, generate_data, inrun, results,
          log, file, inflight, calls, failed, returned, saves, direct>>

-----------------------------------------------------------------------------
(* Bounds *)

\* api client: cap on external requests issued on one object
MaxCalls == 7
\* api client: cap on direct stage-method calls (outside run_full_method)
MaxDirect == 1
\* api client: cap on save_results calls
MaxSaves == 1

-----------------------------------------------------------------------------
(* Python values *)

None == <<>>
Str(t) == <<t>>

\* bool(v) for v None or a str
Truthy(v) == v # None /\ v # Str("")

\* a or b
Or(a, b) == IF Truthy(a) THEN a ELSE b

\* f"{v}": a str is embedded as it is, None as the text "None"
Fmt(v) == IF v = None THEN "None" ELSE v[1]

\* texts the completion service may return (the empty text included)
Texts == {"", "text"}

-----------------------------------------------------------------------------
(* The record *)

Keys == {"question", "observations", "hypothesis", "predictions",
         "experiments", "experimental_data", "analysis", "conclusion"}

\* self.results as __init__ creates it
EmptyResults == [k \in Keys |-> None]

Stages == {"observe", "hypothesize", "predict", "experiment",
           "generate_experimental_data", "analyze", "conclude"}

\* the key a stage method assigns after its request returned
StageKey(s) ==
    CASE s = "observe" -> "observations"
      [] s = "hypothesize" -> "hypothesis"
      [] s = "predict" -> "predictions"
      [] s = "experiment" -> "experiments"
      [] s = "generate_experimental_data" -> "experimental_data"
      [] s = "analyze" -> "analysis"
      [] s = "conclude" -> "conclusion"

-----------------------------------------------------------------------------
(* Prompts *)

\* mutant: the prompt is built without the question
observe_prompt_NoQuestion(q) ==
    <<"You are a scientist beginning an investigation. Question:", Fmt(None),
      "Provide initial observations and context relevant to this question.">>

observe_prompt(q) ==
    <<"You are a scientist beginning an investigation. Question:", Fmt(q),
      "Provide initial observations and context relevant to this question.">>

hypothesize_prompt(r) ==
    <<"Based on the following question and observations, formulate a hypothesis. Question:",
      Fmt(r["question"]), "Observations:", Fmt(r["observations"]),
      "Provide a specific hypothesis.">>

predict_prompt(r) ==
    <<"Given this hypothesis, what predictions can we make? Question:",
      Fmt(r["question"]), "Hypothesis:", Fmt(r["hypothesis"]),
      "Generate 3-5 specific predictions.">>

experiment_prompt(r) ==
    <<"Design experiments to test these predictions. Question:",
      Fmt(r["question"]), "Hypothesis:", Fmt(r["hypothesis"]),
      "Predictions:", Fmt(r["predictions"]),
      "For each prediction, describe the method.">>

generate_experimental_data_prompt(r) ==
    <<"You are conducting the following experiments. Question:",
      Fmt(r["question"]), "Hypothesis:", Fmt(r["hypothesis"]),
      "Predictions:", Fmt(r["predictions"]),
      "Experimental Design:", Fmt(r["experiments"]),
      "Generate realistic experimental data.">>

Placeholder == "Note: No experimental data available. Provide theoretical analysis."
ResultsLabel == "Experimental Results:"

\* mutant: the test "experimental_data is not None" in place of truthiness
data_context_IsNotNone(r) ==
    IF r["experimental_data"] # None
    THEN <<ResultsLabel, Fmt(r["experimental_data"])>>
    ELSE <<Placeholder>>

\* analyze: results.get("experimental_data"), then "if experimental_data:"
data_context(r) ==
    IF Truthy(r["experimental_data"])
    THEN <<ResultsLabel, Fmt(r["experimental_data"])>>
    ELSE <<Placeholder>>

analyze_prompt(r) ==
    <<"Analyze the experimental approach and draw conclusions. Question:",
      Fmt(r["question"]), "Hypothesis:", Fmt(r["hypothesis"]),
      "Predictions:", Fmt(r["predictions"]),
      "Experimental Design:", Fmt(r["experiments"])>>
    \o data_context(r) \o <<"Provide: analysis, limitations, follow-up.">>

conclude_prompt(r) ==
    <<"Synthesize the entire scientific investigation into a conclusion. Question:",
      Fmt(r["question"]), "Hypothesis:", Fmt(r["hypothesis"]),
      "Analysis:", Fmt(r["analysis"]),
      "Provide: verdict, findings, implications, next steps.">>

\* mutant: observe starts from a fresh record
StageEntry_Fresh(s, r, q) ==
    IF s = "observe" THEN [k \in Keys |-> IF k = "question" THEN q ELSE None] ELSE r

\* the record as the stage method has it when it builds its prompt:
\* observe assigns results["question"] first, the others assign nothing
StageEntry(s, r, q) ==
    IF s = "observe" THEN [r EXCEPT !["question"] = q] ELSE r

\* the prompt stage method s builds from record r (observe: from its argument q)
StagePrompt(s, r, q) ==
    CASE s = "observe" -> observe_prompt(q)
      [] s = "hypothesize" -> hypothesize_prompt(r)
      [] s = "predict" -> predict_prompt(r)
      [] s = "experiment" -> experiment_prompt(r)
      [] s = "generate_experimental_data" -> generate_experimental_data_prompt(r)
      [] s = "analyze" -> analyze_prompt(r)
      [] s = "conclude" -> conclude_prompt(r)

\* the request shape: observe uses responses.create with web_search, the rest chat
StageShape(s) == IF s = "observe" THEN "responses+web_search" ELSE "chat"

\* the request a stage method issues
Request(s, r, q) ==
    Str([stage |-> s, shape |-> StageShape(s), prompt |-> StagePrompt(s, r, q)])

\* the assignment a stage method makes once its request returned text t
StageStore(s, r, t) == [r EXCEPT ![StageKey(s)] = Str(t)]

-----------------------------------------------------------------------------
(* Log and export *)

LogBanner == <<"=== Scientific Method Log ===">>

\* log_and_print: append the message to the log file
log_and_print(l, message) == Append(l, message)

StepLabel(s) ==
    CASE s = "observe" -> "1"
      [] s = "hypothesize" -> "2"
      [] s = "predict" -> "3"
      [] s = "experiment" -> "4"
      [] s = "generate_experimental_data" -> "4b"
      [] s = "analyze" -> "5"
      [] s = "conclude" -> "6"

\* "Step 1: Gathering observations..." and the like
StepHeader(s) == <<"Step", StepLabel(s)>>
\* f"\n{observations}\n"
StepOutput(v) == <<"Output", Fmt(v)>>
\* "-" * 80 after every stage but the last, "=" * 80 after conclude
Separator(s) == IF s = "conclude" THEN <<"=" >> ELSE <<"-">>

\* mutant: str(v) is dumped, so None becomes the string "None"
JsonValue_Str(v) == <<"string", Fmt(v)>>

\* json.dump of one value
JsonValue(v) == IF v = None THEN <<"null">> ELSE <<"string", v[1]>>
\* json.dump(self.results)
JsonDump(r) == [k \in Keys |-> JsonValue(r[k])]

ResultsFile == "scientific_method_results.json"

-----------------------------------------------------------------------------
(* run_full_method's control flow *)

\* mutant: stage 4b is skipped whatever generate_data is
NextStage_SkipData(s, gd) ==
    CASE s = "observe" -> "hypothesize"
      [] s = "hypothesize" -> "predict"
      [] s = "predict" -> "experiment"
      [] s = "experiment" -> "analyze"
      [] s = "generate_experimental_data" -> "analyze"
      [] s = "analyze" -> "conclude"
      [] s = "conclude" -> "return"

\* mutant: experiments are designed before the predictions are generated
NextStage_Swapped(s, gd) ==
    CASE s = "observe" -> "hypothesize"
      [] s = "hypothesize" -> "experiment"
      [] s = "experiment" -> "predict"
      [] s = "predict" -> IF gd THEN "generate_experimental_data" ELSE "analyze"
      [] s = "generate_experimental_data" -> "analyze"
      [] s = "analyze" -> "conclude"
      [] s = "conclude" -> "return"

\* the stage run_full_method runs after stage s ("return": none)
NextStage(s, gd) ==
    CASE s = "observe" -> "hypothesize"
      [] s = "hypothesize" -> "predict"
      [] s = "predict" -> "experiment"
      [] s = "experiment" -> IF gd THEN "generate_experimental_data" ELSE "analyze"
      [] s = "generate_experimental_data" -> "analyze"
      [] s = "analyze" -> "conclude"
      [] s = "conclude" -> "return"

\* where control goes when run_full_method returns
AfterRun(c) == IF c = "main" THEN "save" ELSE "idle"
\* mutant: the exception is swallowed and the caller carries on
AfterRaise_Swallow(c) == AfterRun(c)

\* where control goes when an exception leaves the object's method: main
\* catches nothing and the process dies; an api caller gets the exception, and
\* what it does with the object afterwards is not followed
AfterRaise(c) == IF c = "main" THEN "aborted" ELSE "raised"

-----------------------------------------------------------------------------
(* main() *)

DefaultQuestion == "Does rapamycin increase lifespan?"

\* os.getenv('SCIENTIFIC_METHOD_QUESTION', default)
env_question(e) == IF e = None THEN Str(DefaultQuestion) ELSE e

\* mutant: the positional argument is tried before the flag
ResolveQuestion_PositionalFirst(a, e) ==
    Or(Or(a.question, a.question_flag), env_question(e))

\* question = args.question_flag or args.question or env_question
ResolveQuestion(a, e) == Or(Or(a.question_flag, a.question), env_question(e))

FlagValues == {None, Str(""), Str("qflag")}
PositionalValues == {None, Str(""), Str("qpos")}
EnvValues == {None, Str(""), Str("qenv")}

Init ==
    /\ environ \in EnvValues
    /\ argv \in [question_flag : FlagValues, question : PositionalValues,
                 generate_data : BOOLEAN]
    /\ client = "main"
    /\ pc = "main"
    /\ question = None
    /\ generate_data = TRUE
    /\ inrun = FALSE
    /\ results = EmptyResults
    /\ log = <<>>
    /\ file = None
    /\ inflight = None
    /\ calls = <<>>
    /\ failed = <<>>
    /\ returned = 0
    /\ saves = 0
    /\ direct = 0

\* mutant: the check "if not question" is missing
main_args_NoCheck ==
    /\ client = "main" /\ pc = "main"
    /\ question' = ResolveQuestion(argv, environ)
    /\ pc' = "construct"
    /\ UNCHANGED <<environ, argv, client, generate_data, inrun, results, log,
                   file, inflight, calls, failed, returned, saves, direct>>

\* parse_args, question resolution, parser.error when the question is falsy
main_args ==
    /\ client = "main" /\ pc = "main"
    /\ question' = ResolveQuestion(argv, environ)
    /\ pc' = IF Truthy(question') THEN "construct" ELSE "usage_error"
    /\ UNCHANGED <<environ, argv, client, generate_data, inrun, results, log,
                   file, inflight, calls, failed, returned, saves, direct>>

\* sm = ScientificMethod(): __init__ creates the record and the log file
main_construct ==
    /\ client = "main" /\ pc = "construct"
    /\ results' = EmptyResults
    /\ log' = <<LogBanner>>
    /\ pc' = "run"
    /\ UNCHANGED <<environ, argv, client, question, generate_data, inrun,
                   file, inflight, calls, failed, returned, saves, direct>>

\* mutant: run_full_method starts from a fresh record
run_full_method_enter_Reset(q, gd) ==
    /\ question' = q
    /\ generate_data' = gd
    /\ inrun' = TRUE
    /\ log' = log_and_print(log, <<"Question", Fmt(q)>>)
    /\ pc' = "observe"
    /\ results' = EmptyResults
    /\ UNCHANGED <<file, inflight, calls, failed, returned, saves, direct>>

\* run_full_method is entered: the question line is logged
run_full_method_enter(q, gd) ==
    /\ question' = q
    /\ generate_data' = gd
    /\ inrun' = TRUE
    /\ log' = log_and_print(log, <<"Question", Fmt(q)>>)
    /\ pc' = "observe"
    /\ UNCHANGED <<results, file, inflight, calls, failed, returned, saves, direct>>

\* results = sm.run_full_method(question, generate_data=args.generate_data)
main_run ==
    /\ client = "main" /\ pc = "run"
    /\ run_full_method_enter(question, argv.generate_data)
    /\ UNCHANGED <<environ, argv, client>>

\* one stage of run_full_method begins: its header is logged, the stage method
\* builds its prompt and issues its request
run_stage ==
    /\ inrun /\ pc \in Stages
    /\ Len(calls) < MaxCalls
    /\ log' = log_and_print(log, StepHeader(pc))
    /\ results' = StageEntry(pc, results, question)
    /\ inflight' = Request(pc, results', question)
    /\ calls' = Append(calls, inflight'[1])
    /\ pc' = "wait"
    /\ UNCHANGED <<environ, argv, client, question, generate_data, inrun,
                   file, failed, returned, saves, direct>>

\* the request of a stage of run_full_method returns text t: the stage method
\* stores it, run_full_method logs it and a separator, and goes on (or returns)
run_return(t) ==
    /\ inrun /\ pc = "wait"
    /\ LET s == inflight[1].stage
           n == NextStage(s, generate_data)
       IN /\ results' = StageStore(s, results, t)
          /\ log' = log_and_print(log_and_print(log, StepOutput(results'[StageKey(s)])),
                                  Separator(s))
          /\ pc' = IF n = "return" THEN AfterRun(client) ELSE n
          /\ inrun' = (n # "return")
          /\ returned' = IF n = "return" THEN returned + 1 ELSE returned
    /\ inflight' = None
    /\ UNCHANGED <<environ, argv, client, question, generate_data, file, calls,
                   failed, saves, direct>>

\* the request fails: the exception is caught nowhere in the class
request_raise ==
    /\ pc = "wait"
    /\ inflight' = None
    /\ failed' = Append(failed, inflight[1].stage)
    /\ inrun' = FALSE
    /\ pc' = AfterRaise(client)
    /\ UNCHANGED <<environ, argv, client, question, generate_data, results, log,
                   file, calls, returned, saves, direct>>

\* save_results: dump the record, then log the file name
save_results ==
    /\ file' = Str(JsonDump(results))
    /\ log' = log_and_print(log, <<"Results saved to", ResultsFile>>)
    /\ saves' = saves + 1
    /\ UNCHANGED <<results, inflight, calls, failed, returned, direct>>

\* sm.save_results(), then main returns
main_save ==
    /\ client = "main" /\ pc = "save"
    /\ save_results
    /\ pc' = "exit"
    /\ UNCHANGED <<environ, argv, client, question, generate_data, inrun>>

Next ==
    \/ main_args
    \/ main_construct
    \/ main_run
    \/ run_stage
    \/ \E t \in Texts : run_return(t)
    \/ request_raise
    \/ main_save

Spec == Init /\ [][Next]_vars

-----------------------------------------------------------------------------
(* The class driven by a caller other than main(): any sequence of          *)
(* run_full_method, stage-method and save_results calls on one object, the  *)
(* caller getting back the exceptions the object lets through.              *)

ApiQuestions == {Str(""), Str("q1")}

\* the state once the caller has constructed the object
InitApi ==
    /\ environ = None
    /\ argv = [question_flag |-> None, question |-> None, generate_data |-> TRUE]
    /\ client = "api"
    /\ pc = "idle"
    /\ question = None
    /\ generate_data = TRUE
    /\ inrun = FALSE
    /\ results = EmptyResults
    /\ log = <<LogBanner>>
    /\ file = None
    /\ inflight = None
    /\ calls = <<>>
    /\ failed = <<>>
    /\ returned = 0
    /\ saves = 0
    /\ direct = 0

\* sm.run_full_method(q, generate_data=gd)
api_run(q, gd) ==
    /\ client = "api" /\ pc = "idle"
    /\ Len(calls) < MaxCalls
    /\ run_full_method_enter(q, gd)
    /\ UNCHANGED <<environ, argv, client>>

\* a stage method called directly (sm.observe(q), sm.hypothesize(), ...): it
\* builds its prompt and issues its request; nothing is logged
api_stage(s, q) ==
    /\ client = "api" /\ pc = "idle"
    /\ Len(calls) < MaxCalls /\ direct < MaxDirect
    /\ question' = IF s = "observe" THEN q ELSE question
    /\ results' = StageEntry(s, results, q)
    /\ inflight' = Request(s, results', q)
    /\ calls' = Append(calls, inflight'[1])
    /\ direct' = direct + 1
    /\ pc' = "wait"
    /\ UNCHANGED <<environ, argv, client, generate_data, inrun, log, file,
                   failed, returned, saves>>

\* the request of a directly called stage method returns text t
stage_return(t) ==
    /\ ~inrun /\ pc = "wait"
    /\ results' = StageStore(inflight[1].stage, results, t)
    /\ inflight' = None
    /\ pc' = "idle"
    /\ UNCHANGED <<environ, argv, client, question, generate_data, inrun, log,
                   file, calls, failed, returned, saves, direct>>

\* sm.save_results()
api_save ==
    /\ client = "api" /\ pc = "idle"
    /\ saves < MaxSaves
    /\ save_results
    /\ UNCHANGED <<environ, argv, client, pc, question, generate_data, inrun>>

NextApi ==
    \/ \E q \in ApiQuestions, gd \in BOOLEAN : api_run(q, gd)
    \/ \E q \in ApiQuestions : api_stage("observe", q)
    \/ \E s \in Stages \ {"observe"} : api_stage(s, question)
    \/ \E t \in Texts : stage_return(t)
    \/ run_stage
    \/ \E t \in Texts : run_return(t)
    \/ request_raise
    \/ api_save

SpecApi == InitApi /\ [][NextApi]_vars

-----------------------------------------------------------------------------
(* The script under fairness: the thread keeps running and every request    *)
(* ends, by a response or by an exception.                                   *)

FairSpec == Spec /\ WF_vars(Next)

-----------------------------------------------------------------------------
(* Vocabulary of the properties *)

PipelineOrder == <<"question", "observations", "hypothesis", "predictions",
                   "experiments", "experimental_data", "analysis", "conclusion">>

\* the stages of the requests issued so far, in order
CallStages == [i \in 1..Len(calls) |-> calls[i].stage]

\* the stage methods a complete run calls, in order
RunOrder(gd) ==
    IF gd THEN <<"observe", "hypothesize", "predict", "experiment",
                 "generate_experimental_data", "analyze", "conclude">>
          ELSE <<"observe", "hypothesize", "predict", "experiment",
                 "analyze", "conclude">>

IsPrefix(a, b) == Len(a) <= Len(b) /\ \A i \in 1..Len(a) : a[i] = b[i]

UsesPlaceholder(p) == \E i \in 1..Len(p) : p[i] = Placeholder
HasResultsLabel(p) == \E i \in 1..Len(p) : p[i] = ResultsLabel
Embeds(p, t) == \E i \in 1..(Len(p) - 1) : p[i] = ResultsLabel /\ p[i + 1] = t

\* the log entries of the stages a run has completed, from the record
RECURSIVE CompletedLog(_, _)
CompletedLog(stages, r) ==
    IF stages = <<>> THEN <<>>
    ELSE <<StepHeader(Head(stages)), StepOutput(r[StageKey(Head(stages))]),
           Separator(Head(stages))>> \o CompletedLog(Tail(stages), r)

RunLogStart == <<LogBanner, <<"Question", Fmt(question)>> >>

StepHeaders == {StepHeader(s) : s \in Stages}
\* the stage headers in the log, in order
LogHeaders == SelectSeq(log, LAMBDA m : m \in StepHeaders)

-----------------------------------------------------------------------------
(* C1 *)

\* C1: in every state of the script's run (running, finished or aborted) no
\* key of the record is populated while an earlier key of the pipeline order
\* is absent, except that experimental_data may be absent when data generation
\* is disabled.
C1_PipelineOrder ==
    \A i \in 1..Len(PipelineOrder), j \in 1..Len(PipelineOrder) :
        (/\ i < j
         /\ results[PipelineOrder[j]] # None
         /\ (PipelineOrder[i] # "experimental_data" \/ generate_data))
        => results[PipelineOrder[i]] # None

\* a run without data generation aborted in conclude: analysis is populated
\* over the permitted gap
C1_Witness ==
    /\ pc = "aborted" /\ ~generate_data
    /\ results["analysis"] # None /\ results["experimental_data"] = None
    /\ results["conclusion"] = None

-----------------------------------------------------------------------------
(* C3 *)

AnalyzeRequested == inflight # None /\ inflight[1].stage = "analyze"

\* C3 as stated: analyze uses the placeholder exactly when experimental_data is
\* absent, and embeds any stored text, the empty text included.
C3_Original ==
    AnalyzeRequested =>
        LET p == inflight[1].prompt
            d == results["experimental_data"]
        IN /\ UsesPlaceholder(p) <=> d = None
           /\ d # None => Embeds(p, d[1])

\* C3 amended: analyze uses the placeholder exactly when experimental_data is
\* absent or the empty text; a non-empty stored text is embedded verbatim after
\* the results label and the placeholder is not used.
C3_PlaceholderIffNoData ==
    AnalyzeRequested =>
        LET p == inflight[1].prompt
            d == results["experimental_data"]
        IN /\ UsesPlaceholder(p) <=> d \in {None, Str("")}
           /\ d \notin {None, Str("")} => Embeds(p, d[1])
           /\ UsesPlaceholder(p) <=> ~HasResultsLabel(p)

\* stage 4b stored the empty text and analyze built its prompt
C3_Witness ==
    /\ AnalyzeRequested
    /\ results["experimental_data"] = Str("")
    /\ "generate_experimental_data" \in {calls[i].stage : i \in 1..Len(calls)}

-----------------------------------------------------------------------------
(* C4 *)

\* the stages of the run whose requests returned, when the last one failed
CompletedStages == SubSeq(CallStages, 1, Len(calls) - 1)

AbortedRecord ==
    /\ \A s \in Stages :
          results[StageKey(s)] # None
              <=> \E i \in 1..Len(CompletedStages) : CompletedStages[i] = s
    /\ inflight = None
    /\ file = None /\ saves = 0

\* C4 as stated: after a failed request the run is over, the record holds the
\* completed stages' keys only, no export is written, and the log has entries
\* for the completed stages only.
C4_Original ==
    failed # <<>> =>
        /\ pc = "aborted" /\ failed = <<CallStages[Len(calls)]>>
        /\ AbortedRecord
        /\ log = RunLogStart \o CompletedLog(CompletedStages, results)

\* C4 amended: as stated, except that the log also holds the header of the
\* failing stage, which is logged before the request is issued; it holds no
\* output or separator for it.
C4_AbortLeavesPartialRun ==
    failed # <<>> =>
        /\ pc = "aborted" /\ failed = <<CallStages[Len(calls)]>>
        /\ AbortedRecord
        /\ log = RunLogStart \o CompletedLog(CompletedStages, results)
                     \o <<StepHeader(failed[1])>>

\* the request of predict failed after two completed stages
C4_Witness ==
    /\ failed = <<"predict">> /\ pc = "aborted"
    /\ results["hypothesis"] # None

-----------------------------------------------------------------------------
(* C5 *)

\* C5: a completed run with --no-data ends with experimental_data absent and
\* the other seven keys populated, stage 4b neither called nor logged (six
\* stage headers), the placeholder in the analyze prompt, and an export of
\* seven non-null values and one null.
C5_NoDataRun ==
    (pc = "exit" /\ ~argv.generate_data) =>
        /\ results["experimental_data"] = None
        /\ \A k \in Keys \ {"experimental_data"} : results[k] # None
        /\ CallStages = RunOrder(FALSE)
        /\ LogHeaders = [i \in 1..6 |-> StepHeader(RunOrder(FALSE)[i])]
        /\ \A i \in 1..Len(calls) :
              calls[i].stage = "analyze" =>
                  UsesPlaceholder(calls[i].prompt) /\ ~HasResultsLabel(calls[i].prompt)
        /\ file # None
        /\ Cardinality({k \in Keys : file[1][k] # <<"null">>}) = 7
        /\ file[1]["experimental_data"] = <<"null">>

C5_Witness == pc = "exit" /\ ~argv.generate_data /\ results["conclusion"] # None

-----------------------------------------------------------------------------
(* C6 *)

Resolved == pc # "main"
Given(v) == Truthy(v)

\* C6 as stated: the question is the first given one of flag, positional and
\* environment variable, and resolution fails when none is given.
C6_Original ==
    Resolved =>
        /\ Given(argv.question_flag) => question = argv.question_flag
        /\ (~Given(argv.question_flag) /\ Given(argv.question))
              => question = argv.question
        /\ (~Given(argv.question_flag) /\ ~Given(argv.question) /\ Given(environ))
              => question = environ
        /\ (~Given(argv.question_flag) /\ ~Given(argv.question) /\ ~Given(environ))
              => pc = "usage_error"

\* C6 amended: the question is the first non-empty one of flag, positional and
\* environment variable; when none is non-empty and the variable is unset it is
\* the built-in default question; resolution fails only when none is non-empty
\* and the variable is set to the empty text.
C6_Priority ==
    Resolved =>
        /\ Given(argv.question_flag) => question = argv.question_flag
        /\ (~Given(argv.question_flag) /\ Given(argv.question))
              => question = argv.question
        /\ (~Given(argv.question_flag) /\ ~Given(argv.question) /\ Given(environ))
              => question = environ
        /\ (~Given(argv.question_flag) /\ ~Given(argv.question) /\ environ = None)
              => question = Str(DefaultQuestion)
        /\ pc = "usage_error"
              <=> (~Given(argv.question_flag) /\ ~Given(argv.question)
                   /\ environ = Str(""))

\* all three sources given: the flag wins
C6_Witness ==
    /\ pc = "construct"
    /\ argv.question_flag = Str("qflag") /\ argv.question = Str("qpos")
    /\ environ = Str("qenv")
    /\ question = Str("qflag")

-----------------------------------------------------------------------------
(* C7 *)

NothingStarted ==
    /\ pc = "usage_error"
    /\ calls = <<>> /\ inflight = None
    /\ results = EmptyResults /\ log = <<>> /\ file = None /\ saves = 0

\* C7 as stated: with no question given by flag, positional or environment
\* variable the process exits with a usage error before anything is started.
C7_Original ==
    (/\ Resolved
     /\ ~Given(argv.question_flag) /\ ~Given(argv.question) /\ ~Given(environ))
    => NothingStarted

\* C7 amended: the usage error is raised exactly when the resolved question is
\* empty, which needs the environment variable to be set to the empty text
\* (unset, the default question is used and the run starts); then nothing is
\* constructed, requested, logged or exported.
C7_UsageError ==
    /\ (/\ Resolved
        /\ ~Given(argv.question_flag) /\ ~Given(argv.question)
        /\ environ = Str(""))
       => NothingStarted
    /\ pc = "usage_error" => (~Truthy(question) /\ environ = Str(""))

C7_Witness == pc = "usage_error" /\ argv.question_flag = Str("")

-----------------------------------------------------------------------------
(* C9 *)

\* requests are issued one at a time in the order of the run, each after the
\* results of all earlier ones were stored; a finished run has issued them all
C9_Order ==
    /\ IsPrefix(CallStages, RunOrder(generate_data))
    /\ inflight # None => (pc = "wait" /\ inflight[1] = calls[Len(calls)])
    /\ pc = "wait" => inflight # None
    /\ \A i \in 1..Len(calls) :
          (i < Len(calls) \/ (inflight = None /\ failed = <<>>))
              => results[StageKey(calls[i].stage)] # None
    /\ \A i \in 1..Len(calls) :
          results[StageKey(calls[i].stage)] # None
              => (i < Len(calls) \/ inflight = None)
    /\ pc \in {"save", "exit"} => CallStages = RunOrder(generate_data)
    /\ failed # <<>> => pc = "aborted"

RunOver == pc \in {"exit", "usage_error"} \/ failed # <<>>

\* C9: a run issues its requests strictly one after the other in pipeline
\* order, each stage once and only after the previous result is stored, and
\* it eventually finishes with every enabled stage done (7 requests, 6 without
\* data generation) unless a request fails, where it stops.
C9_Sequential == []C9_Order /\ <>RunOver

\* a run with data generation finished after seven requests
C9_Witness ==
    /\ pc = "exit" /\ generate_data /\ Len(calls) = 7 /\ failed = <<>>

-----------------------------------------------------------------------------
(* Steps of observe *)

\* observe is entered: it assigns the question and issues its request
ObserveBegins ==
    /\ pc # "wait" /\ pc' = "wait"
    /\ inflight' # None /\ inflight'[1].stage = "observe"
\* the request of observe ends, by a response or by an exception
ObserveReturns ==
    /\ pc = "wait" /\ pc' # "wait"
    /\ inflight[1].stage = "observe" /\ failed' = failed
ObserveRaises ==
    /\ pc = "wait" /\ pc' # "wait"
    /\ inflight[1].stage = "observe" /\ failed' # failed

-----------------------------------------------------------------------------
(* C2 *)

\* C2 as stated: no step of observe changes a key other than observations.
C2_Original ==
    [][(ObserveBegins \/ ObserveReturns \/ ObserveRaises)
          => \A k \in Keys \ {"observations"} : results'[k] = results[k]]_vars

\* C2 amended: observe populates exactly the keys question and observations:
\* on entry it sets question to its argument and changes nothing else, on the
\* response it sets observations and changes nothing else, and on an exception
\* it changes nothing more.
C2_ObserveFrame ==
    [][/\ ObserveBegins => results' = [results EXCEPT !["question"] = question']
       /\ ObserveReturns =>
             /\ results'["observations"] # None
             /\ \A k \in Keys \ {"observations"} : results'[k] = results[k]
       /\ ObserveRaises => results' = results]_vars

\* observe has run to its end on a record that other stages had populated
C2_Witness ==
    /\ Len(calls) > 1 /\ calls[Len(calls)].stage = "observe"
    /\ inflight = None /\ failed = <<>>
    /\ results["hypothesis"] # None /\ results["observations"] # None

-----------------------------------------------------------------------------
(* C8 *)

\* C8 as stated: observe fails on an empty question, so no request of observe
\* ever carries an empty question and no observations are stored for one.
C8_Original ==
    /\ \A i \in 1..Len(calls) :
          calls[i].stage = "observe" => calls[i].prompt[2] # ""
    /\ (results["question"] = Str("") /\ direct = 0 /\ returned = 0)
          => results["observations"] = None

\* C8 amended: observe does not check its question: called with the empty
\* text it stores it under question, issues its request with the empty text
\* embedded and without failing, and stores the response as observations.
C8_EmptyQuestionAccepted ==
    [][/\ (ObserveBegins /\ question' = Str("")) =>
             /\ results'["question"] = Str("")
             /\ inflight'[1].prompt[2] = ""
             /\ calls' = Append(calls, inflight'[1])
             /\ failed' = failed
       /\ (ObserveReturns /\ question = Str("")) =>
             /\ results'["question"] = Str("")
             /\ results'["observations"] # None]_vars

\* observations were stored for an empty question
C8_Witness ==
    /\ results["question"] = Str("") /\ results["observations"] # None
    /\ calls[Len(calls)].stage = "observe" /\ inflight = None

-----------------------------------------------------------------------------
(* C10 *)

\* C10 as stated: once a run has returned no step changes the record, and a
\* run entered after an earlier one starts from an empty record.
C10_Original ==
    [][/\ returned > 0 => results' = results
       /\ (returned > 0 /\ inrun' /\ ~inrun) => results' = EmptyResults]_vars

\* C10 amended: the record is created empty when the object is constructed,
\* not at run start, and it stays writable after a run: save_results and the
\* entry of run_full_method leave every key as it is (a further run starts
\* from the earlier values), and only the steps of stage methods change keys.
C10_RecordLifecycle ==
    /\ [](calls = <<>> => results = EmptyResults)
    /\ [][/\ saves' # saves => results' = results
          /\ (inrun' /\ ~inrun) => results' = results
          /\ results' # results => (pc = "wait" \/ pc' = "wait")]_vars

\* a second run was started on an object whose first run had returned
C10_Witness ==
    /\ returned = 1 /\ inrun /\ pc = "observe"
    /\ results["conclusion"] # None

====
